---- MODULE Spec2Model ----
(***************************************************************************)
(* ReseedingRng (src/src/reseeding.rs): a wrapper around a PRNG that       *)
(* reseeds it from a second RNG after it has generated `threshold` bytes.  *)
(*                                                                         *)
(* The object's fields are the variables rng, reseeder, threshold and      *)
(* bytes_until_reseed.  Every public method is one action; the methods are *)
(* synchronous, so an action is the whole call.  The outcomes of the       *)
(* reseeder during a call (R::from_rng succeeding or failing with some     *)
(* ErrorKind) are an input of the call: a finite stream of outcomes, of    *)
(* which the call consumes one per reconstruction attempt.                 *)
(*                                                                         *)
(* A second specification, SpecLive, runs the loop of reseed one iteration *)
(* per step, so that a call that never returns is a behaviour of it; the   *)
(* variable call holds the position of the running call.                   *)
(*                                                                         *)
(* The countdown is an i64 and the constructor argument a u64.  TLC's      *)
(* integers are 32 bits wide, so the model keeps the two's complement      *)
(* layout but scales the width to CountdownBits.                           *)
(***************************************************************************)
EXTENDS Integers, Sequences, FiniteSets, TLC

VARIABLES obj, rng, reseeder, threshold, bytes_until_reseed, last, replay, call

vars == <<obj, rng, reseeder, threshold, bytes_until_reseed, last, replay, call>>

----------------------------------------------------------------------------
(* Bounds of the model *)

\* width of the countdown (i64 in the source) and of the threshold argument
CountdownBits == 16
\* seeds are taken modulo SeedMod
SeedMod == 2
\* length of the stream of reseeder outcomes handed to one call
SrcLen == 7
\* the outcomes of a stream handed to try_reseed that may differ
TryLen == 2
\* a wrapped generator instance emits at most MaxPos bytes in the model
MaxPos == 40
\* the replay counter stops counting after MaxCycles consecutive fills
MaxCycles == 11

----------------------------------------------------------------------------
(* Program constants *)

\* err_count <= 5
RetryLimit == 5
\* self.threshold >> 8
WaitShift == 8
\* let mut buf = [0u8; 32] of test_reseeding
ReplayLen == 32

I64_MAX == 2^(CountdownBits - 1) - 1
U64_MAX == 2^CountdownBits - 1

----------------------------------------------------------------------------
(* Collaborators: ErrorKind, the wrapped generator R, the reseeder Rsdr *)

ErrorKinds == {"Unavailable", "Unexpected", "Transient", "NotReady"}
Outcomes == {"Ok"} \cup ErrorKinds

\* wait-class
should_wait(kind) == kind = "NotReady"
\* retry-class
should_retry(kind) == kind = "Transient"

\* the bytes [from, from + len) of the output stream of the generator built
\* from `seed`
Block(seed, from, len) == [seed |-> seed, from |-> from, len |-> len]
NoValue == [seed |-> -1, from |-> 0, len |-> 0]

\* R::next_u32 / next_u64 / fill_bytes: emit n bytes and advance
rng_draw(g, n) == [value |-> Block(g.seed, g.pos, n),
                   rng |-> [g EXCEPT !.pos = @ + n]]

\* R::from_rng(&mut reseeder): `outcome` is what the reseeder does this time
from_rng(src, outcome) ==
    IF outcome = "Ok"
    THEN [kind |-> "Ok",
          rng |-> [seed |-> src.v, pos |-> 0],
          src |-> [src EXCEPT !.v = (@ + src.step) % SeedMod]]
    ELSE [kind |-> outcome, rng |-> [seed |-> -1, pos |-> 0], src |-> src]

----------------------------------------------------------------------------
(* Inputs *)

\* threshold arguments of new (u64)
ThresholdArgs == {0, 4, 32, 300, I64_MAX, I64_MAX + 1, U64_MAX}

\* buffer lengths of fill_bytes and try_fill_bytes
BufLens == {0, 32}

\* failures of the wrapped generator's try_fill_bytes
RngErrs == {"Unavailable", "NotReady"}

\* seed sources: mode is what from_rng does with it on every attempt
\* ("flaky": anything); v is the entropy it hands out next, step its increment
Sources ==
    {[mode |-> "Ok", v |-> 0, step |-> 0],
     [mode |-> "Ok", v |-> 0, step |-> 1],
     [mode |-> "NotReady", v |-> 0, step |-> 1],
     [mode |-> "Transient", v |-> 0, step |-> 1],
     [mode |-> "Unavailable", v |-> 0, step |-> 1],
     [mode |-> "flaky", v |-> 0, step |-> 0]}

\* the outcomes of the reseeder's next SrcLen attempts: n retry-class
\* failures, then f, then g for the rest
Stream(n, f, g) ==
    [i \in 1..SrcLen |-> IF i <= n THEN "Transient" ELSE IF i = n + 1 THEN f ELSE g]

\* the streams of a source that differ in their first k outcomes
Streams(src, k) ==
    IF src.mode = "flaky"
    THEN {Stream(n, f, "Ok") : n \in 0..(k - 1), f \in Outcomes}
    ELSE {Stream(0, src.mode, src.mode)}

----------------------------------------------------------------------------
(* ReseedingRng: the methods, as functions of the object and the inputs *)

\* The object during a call: its four fields, and what the call has done so
\* far: the reseeder outcomes consumed (one per reconstruction attempt), the
\* reseed procedure invoked, the error and the value to return, and the
\* error of the wrapped generator's own try_fill_bytes.
Frame(g, src, t, b) ==
    [rng |-> g, reseeder |-> src, threshold |-> t, bytes_until_reseed |-> b,
     results |-> <<>>, proc |-> "none", err |-> "none", value |-> NoValue,
     inner |-> "none"]

new_accepts_All(t) == t <= U64_MAX

\* new: assert!(threshold <= i64::MAX as u64)
new_accepts(t) == t <= I64_MAX

\* threshold as i64
as_i64(x) == IF x > I64_MAX THEN x - 2^CountdownBits ELSE x

new(g, t, src) == Frame(g, src, as_i64(t), as_i64(t))

delayed_bytes_Div(t) == t \div WaitShift

delayed_bytes_None(t) == t

delayed_bytes_Left(t) == t * (2^WaitShift)

\* self.threshold >> 8
delayed_bytes(t) == t \div (2^WaitShift)

retry_allowed_Seven(err_count) == err_count <= RetryLimit + 1

\* if err_count <= 5 { continue; }
retry_allowed(err_count) == err_count <= RetryLimit

attempt_Discard(s, outcome) ==
    LET r == from_rng(s.reseeder, outcome)
    IN [kind |-> r.kind,
        s |-> [s EXCEPT !.reseeder = r.src, !.results = Append(@, outcome)]]

attempt_Clobber(s, outcome) ==
    LET r == from_rng(s.reseeder, outcome)
    IN [kind |-> r.kind,
        s |-> [s EXCEPT !.reseeder = r.src,
                        !.rng = r.rng,
                        !.results = Append(@, outcome)]]

\* one attempt: R::from_rng(&mut self.reseeder).map(|result| self.rng = result)
attempt(s, outcome) ==
    LET r == from_rng(s.reseeder, outcome)
    IN [kind |-> r.kind,
        s |-> [s EXCEPT !.reseeder = r.src,
                        !.rng = IF r.kind = "Ok" THEN r.rng ELSE @,
                        !.results = Append(@, outcome)]]

reseed_step_NoCount(s, outcome, err_count) ==
    LET a == attempt(s, outcome)
    IN IF a.kind = "Ok" THEN [s |-> a.s, err_count |-> err_count, done |-> TRUE]
       ELSE IF should_wait(a.kind)
            THEN [s |-> [a.s EXCEPT !.bytes_until_reseed = delayed_bytes(a.s.threshold)],
                  err_count |-> err_count, done |-> TRUE]
       ELSE IF should_retry(a.kind) /\ retry_allowed(err_count + 1)
            THEN [s |-> a.s, err_count |-> err_count, done |-> FALSE]
       ELSE [s |-> a.s,
             err_count |-> IF should_retry(a.kind) THEN err_count + 1 ELSE err_count,
             done |-> TRUE]

\* one iteration of the loop of reseed: the attempt, then break (done) or
\* continue with err_count incremented
reseed_step(s, outcome, err_count) ==
    LET a == attempt(s, outcome)
    IN IF a.kind = "Ok" THEN [s |-> a.s, err_count |-> err_count, done |-> TRUE]
       ELSE IF should_wait(a.kind)
            THEN [s |-> [a.s EXCEPT !.bytes_until_reseed = delayed_bytes(a.s.threshold)],
                  err_count |-> err_count, done |-> TRUE]
       ELSE IF should_retry(a.kind) /\ retry_allowed(err_count + 1)
            THEN [s |-> a.s, err_count |-> err_count + 1, done |-> FALSE]
       ELSE [s |-> a.s,
             err_count |-> IF should_retry(a.kind) THEN err_count + 1 ELSE err_count,
             done |-> TRUE]

RECURSIVE reseed_loop_WaitContinues(_, _, _, _)
reseed_loop_WaitContinues(s, stream, i, err_count) ==
    IF i > Len(stream) THEN s
    ELSE LET a == attempt(s, stream[i])
         IN IF a.kind = "Ok" THEN a.s
            ELSE IF should_wait(a.kind)
                 THEN reseed_loop_WaitContinues(
                          [a.s EXCEPT !.bytes_until_reseed = delayed_bytes(a.s.threshold)],
                          stream, i + 1, err_count)
            ELSE IF should_retry(a.kind) /\ retry_allowed(err_count + 1)
                 THEN reseed_loop_WaitContinues(a.s, stream, i + 1, err_count + 1)
            ELSE a.s

\* the loop of reseed; attempt number i reads stream[i]
RECURSIVE reseed_loop(_, _, _, _)
reseed_loop(s, stream, i, err_count) ==
    IF i > Len(stream) THEN s
    ELSE LET r == reseed_step(s, stream[i], err_count)
         IN IF r.done THEN r.s
            ELSE reseed_loop(r.s, stream, i + 1, r.err_count)

reseed_NoReset(s, stream) ==
    reseed_loop([s EXCEPT !.proc = "reseed"], stream, 1, 0)

reseed_KeepOverdraw(s, stream) ==
    reseed_loop([s EXCEPT !.bytes_until_reseed = s.threshold + @, !.proc = "reseed"],
                stream, 1, 0)

\* reseed: the countdown is reset before the loop
reseed(s, stream) ==
    reseed_loop([s EXCEPT !.bytes_until_reseed = s.threshold, !.proc = "reseed"],
                stream, 1, 0)

newkind_Same(kind) == kind

\* the match of try_reseed on err.kind()
newkind(kind) == IF kind = "NotReady" THEN "NotReady"
                 ELSE IF kind = "Transient" THEN "Transient"
                 ELSE "Transient"

try_reseed_NoReset(s, stream) ==
    LET a == attempt([s EXCEPT !.proc = "try_reseed"], stream[1])
    IN IF a.kind # "Ok"
       THEN [a.s EXCEPT !.bytes_until_reseed =
                            IF a.kind \in {"NotReady", "Transient"} THEN @
                            ELSE a.s.threshold,
                        !.err = newkind(a.kind)]
       ELSE a.s

try_reseed_AlwaysReset(s, stream) ==
    LET a == attempt([s EXCEPT !.proc = "try_reseed"], stream[1])
    IN IF a.kind # "Ok"
       THEN [a.s EXCEPT !.bytes_until_reseed = a.s.threshold,
                        !.err = newkind(a.kind)]
       ELSE [a.s EXCEPT !.bytes_until_reseed = a.s.threshold]

try_reseed_NoSkip(s, stream) ==
    LET a == attempt([s EXCEPT !.proc = "try_reseed"], stream[1])
    IN IF a.kind # "Ok"
       THEN [a.s EXCEPT !.err = newkind(a.kind)]
       ELSE [a.s EXCEPT !.bytes_until_reseed = a.s.threshold]

\* try_reseed: a single attempt, reading stream[1]
try_reseed(s, stream) ==
    LET a == attempt([s EXCEPT !.proc = "try_reseed"], stream[1])
    IN IF a.kind # "Ok"
       THEN [a.s EXCEPT !.bytes_until_reseed =
                            IF a.kind \in {"NotReady", "Transient"} THEN @
                            ELSE a.s.threshold,
                        !.err = newkind(a.kind)]
       ELSE [a.s EXCEPT !.bytes_until_reseed = a.s.threshold]

next_u32_Late(s, stream) ==
    LET t == [s EXCEPT !.bytes_until_reseed = @ - 4]
        u == IF t.bytes_until_reseed <= 0 THEN reseed(t, stream) ELSE t
        d == rng_draw(u.rng, 4)
    IN [u EXCEPT !.rng = d.rng, !.value = d.value]

next_u32(s, stream) ==
    LET d == rng_draw(s.rng, 4)
        t == [s EXCEPT !.rng = d.rng,
                       !.value = d.value,
                       !.bytes_until_reseed = @ - 4]
    IN IF t.bytes_until_reseed <= 0 THEN reseed(t, stream) ELSE t

next_u64_Strict(s, stream) ==
    LET d == rng_draw(s.rng, 8)
        t == [s EXCEPT !.rng = d.rng,
                       !.value = d.value,
                       !.bytes_until_reseed = @ - 8]
    IN IF t.bytes_until_reseed < 0 THEN reseed(t, stream) ELSE t

next_u64(s, stream) ==
    LET d == rng_draw(s.rng, 8)
        t == [s EXCEPT !.rng = d.rng,
                       !.value = d.value,
                       !.bytes_until_reseed = @ - 8]
    IN IF t.bytes_until_reseed <= 0 THEN reseed(t, stream) ELSE t

fill_bytes_Strict(s, len, stream) ==
    LET d == rng_draw(s.rng, len)
        t == [s EXCEPT !.rng = d.rng,
                       !.value = d.value,
                       !.bytes_until_reseed = @ - len]
    IN IF t.bytes_until_reseed < 0 THEN reseed(t, stream) ELSE t

fill_bytes(s, len, stream) ==
    LET d == rng_draw(s.rng, len)
        t == [s EXCEPT !.rng = d.rng,
                       !.value = d.value,
                       !.bytes_until_reseed = @ - len]
    IN IF t.bytes_until_reseed <= 0 THEN reseed(t, stream) ELSE t

try_fill_bytes_Strict(s, len, rngerr, stream) ==
    IF rngerr # "none" THEN [s EXCEPT !.err = rngerr, !.inner = rngerr]
    ELSE LET d == rng_draw(s.rng, len)
             t == [s EXCEPT !.rng = d.rng,
                            !.value = d.value,
                            !.bytes_until_reseed = @ - len]
         IN IF t.bytes_until_reseed < 0 THEN try_reseed(t, stream) ELSE t

try_fill_bytes_ReseedOnError(s, len, rngerr, stream) ==
    IF rngerr # "none"
    THEN LET e == [s EXCEPT !.err = rngerr, !.inner = rngerr]
         IN IF e.bytes_until_reseed <= 0
            THEN [try_reseed(e, stream) EXCEPT !.err = rngerr]
            ELSE e
    ELSE LET d == rng_draw(s.rng, len)
             t == [s EXCEPT !.rng = d.rng,
                            !.value = d.value,
                            !.bytes_until_reseed = @ - len]
         IN IF t.bytes_until_reseed <= 0 THEN try_reseed(t, stream) ELSE t

\* rngerr: the outcome of self.rng.try_fill_bytes(dest)?, "none" or its error
try_fill_bytes(s, len, rngerr, stream) ==
    IF rngerr # "none" THEN [s EXCEPT !.err = rngerr, !.inner = rngerr]
    ELSE LET d == rng_draw(s.rng, len)
             t == [s EXCEPT !.rng = d.rng,
                            !.value = d.value,
                            !.bytes_until_reseed = @ - len]
         IN IF t.bytes_until_reseed <= 0 THEN try_reseed(t, stream) ELSE t

----------------------------------------------------------------------------
(* The state machine *)

\* the object at the start of a call
Self == Frame(rng, reseeder, threshold, bytes_until_reseed)

NoRng == [seed |-> -1, pos |-> 0]
NoSource == [mode |-> "Ok", v |-> 0, step |-> 0]
NoCall == [op |-> "none", len |-> 0, value |-> NoValue, err |-> "none",
           results |-> <<>>, proc |-> "none", inner |-> "none"]
NoReplay == [n |-> -1, first |-> NoValue]
NoLoop == [pc |-> "idle", err_count |-> 0]

\* obj: "none" before new, "live" once constructed, "panicked" when new's
\* assertion failed.  last: the last call, its argument (the threshold of new,
\* the buffer length of a fill, the width of next_u32 and next_u64), what it
\* did and what it returned.
\* replay: the run of test_reseeding so far, n consecutive fills of ReplayLen
\* bytes since new and the first of the blocks; n = -1 once the run is broken.
\* call: "idle" between calls; "loop" while a call is in the loop of reseed,
\* with the loop's err_count, and last is then the call that is running.
Init ==
    /\ obj = "none"
    /\ rng = NoRng
    /\ reseeder = NoSource
    /\ threshold = 0
    /\ bytes_until_reseed = 0
    /\ last = NoCall
    /\ replay = NoReplay
    /\ call = NoLoop

\* the fields and the record of the call, after a call that ended in frame f
Return(op, len, f) ==
    /\ obj' = "live"
    /\ rng' = f.rng
    /\ reseeder' = f.reseeder
    /\ threshold' = f.threshold
    /\ bytes_until_reseed' = f.bytes_until_reseed
    /\ last' = [op |-> op, len |-> len, value |-> f.value, err |-> f.err,
                results |-> f.results, proc |-> f.proc, inner |-> f.inner]
    /\ replay' = IF op = "new" THEN [n |-> 0, first |-> NoValue]
                 ELSE IF /\ op = "fill_bytes"
                         /\ len = ReplayLen
                         /\ replay.n >= 0
                         /\ replay.n < MaxCycles
                 THEN [n |-> replay.n + 1,
                       first |-> IF replay.n = 0 THEN f.value ELSE replay.first]
                 ELSE NoReplay
    /\ call' = NoLoop

\* the reseeder's outcomes matter to a call of n bytes only when the
\* countdown falls due in it
StreamsFor(n, k) ==
    IF bytes_until_reseed - n <= 0
    THEN Streams(reseeder, k)
    ELSE {Stream(0, "Ok", "Ok")}

\* the model stops drawing from an instance that has emitted MaxPos bytes
CanDraw(n) == obj = "live" /\ call.pc = "idle" /\ rng.pos + n <= MaxPos

New ==
    /\ obj = "none"
    /\ \E seed \in 0..(SeedMod - 1), t \in ThresholdArgs, src \in Sources :
          IF new_accepts(t)
          THEN Return("new", t, new([seed |-> seed, pos |-> 0], t, src))
          ELSE /\ obj' = "panicked"
               /\ last' = [NoCall EXCEPT !.op = "new", !.len = t]
               /\ UNCHANGED <<rng, reseeder, threshold, bytes_until_reseed, replay, call>>

NextU32 ==
    /\ CanDraw(4)
    /\ \E stream \in StreamsFor(4, SrcLen) : Return("next_u32", 4, next_u32(Self, stream))

NextU64 ==
    /\ CanDraw(8)
    /\ \E stream \in StreamsFor(8, SrcLen) : Return("next_u64", 8, next_u64(Self, stream))

FillBytes ==
    \E len \in BufLens :
        /\ CanDraw(len)
        /\ \E stream \in StreamsFor(len, SrcLen) :
              Return("fill_bytes", len, fill_bytes(Self, len, stream))

TryFillBytes ==
    \E len \in BufLens, rngerr \in {"none"} \cup RngErrs :
        /\ CanDraw(len)
        /\ \E stream \in (IF rngerr = "none" THEN StreamsFor(len, TryLen)
                                               ELSE {Stream(0, "Ok", "Ok")}) :
              Return("try_fill_bytes", len, try_fill_bytes(Self, len, rngerr, stream))

Reseed ==
    /\ CanDraw(0)
    /\ \E stream \in Streams(reseeder, SrcLen) : Return("reseed", 0, reseed(Self, stream))

TryReseed ==
    /\ CanDraw(0)
    /\ \E stream \in Streams(reseeder, TryLen) :
          Return("try_reseed", 0, try_reseed(Self, stream))

Next ==
    \/ New
    \/ NextU32
    \/ NextU64
    \/ FillBytes
    \/ TryFillBytes
    \/ Reseed
    \/ TryReseed

Spec == Init /\ [][Next]_vars

----------------------------------------------------------------------------
(* The loop of reseed, one iteration per step *)

\* what the reseeder may do on its next attempt
OutcomesOf(src) == {stream[1] : stream \in Streams(src, 1)}

\* the call has reached the loop of reseed, frame f at the loop's head
Enter(op, len, f) ==
    /\ rng' = f.rng
    /\ reseeder' = f.reseeder
    /\ bytes_until_reseed' = f.bytes_until_reseed
    /\ last' = [op |-> op, len |-> len, value |-> f.value, err |-> f.err,
                results |-> f.results, proc |-> f.proc, inner |-> f.inner]
    /\ call' = [pc |-> "loop", err_count |-> 0]
    /\ UNCHANGED <<obj, threshold, replay>>

\* next_u32, next_u64, fill_bytes or reseed up to the loop of reseed: the
\* call returns when there is no reseed to do
Begin ==
    \E op \in {"next_u32", "next_u64", "fill_bytes", "reseed"} :
        \E len \in (IF op = "fill_bytes" THEN BufLens
                     ELSE IF op = "next_u32" THEN {4}
                     ELSE IF op = "next_u64" THEN {8} ELSE {0}) :
            LET f == IF op = "next_u32" THEN next_u32(Self, <<>>)
                     ELSE IF op = "next_u64" THEN next_u64(Self, <<>>)
                     ELSE IF op = "fill_bytes" THEN fill_bytes(Self, len, <<>>)
                     ELSE reseed(Self, <<>>)
            IN /\ CanDraw(len)
               /\ IF f.proc = "reseed" THEN Enter(op, len, f) ELSE Return(op, len, f)

\* one iteration of the loop; the call returns when the loop breaks.  Of the
\* outcomes of the call's attempts the record keeps the last.
Step ==
    /\ call.pc = "loop"
    /\ \E outcome \in OutcomesOf(reseeder) :
          LET r == reseed_step([Self EXCEPT !.proc = last.proc, !.value = last.value],
                               outcome, call.err_count)
          IN IF r.done
             THEN Return(last.op, last.len, r.s)
             ELSE /\ rng' = r.s.rng
                  /\ reseeder' = r.s.reseeder
                  /\ bytes_until_reseed' = r.s.bytes_until_reseed
                  /\ call' = [call EXCEPT !.err_count = r.err_count]
                  /\ UNCHANGED <<obj, threshold, last, replay>>

\* the thresholds of the objects whose calls are run step by step: always
\* due, due in every call, due only on request
LiveThresholds == {0, 4, 300}

\* the objects new constructs
InitLive ==
    \E seed \in 0..(SeedMod - 1), t \in LiveThresholds, src \in Sources :
        LET f == new([seed |-> seed, pos |-> 0], t, src)
        IN /\ obj = "live"
           /\ rng = f.rng
           /\ reseeder = f.reseeder
           /\ threshold = f.threshold
           /\ bytes_until_reseed = f.bytes_until_reseed
           /\ last = [NoCall EXCEPT !.op = "new", !.len = t]
           /\ replay = [n |-> 0, first |-> NoValue]
           /\ call = NoLoop

NextLive ==
    \/ Begin
    \/ Step
    \/ TryFillBytes
    \/ TryReseed

\* the thread that made the call keeps running it
SpecLive == InitLive /\ [][NextLive]_vars /\ WF_vars(Step)

----------------------------------------------------------------------------
(* Properties *)

GenOps == {"next_u32", "next_u64", "fill_bytes", "try_fill_bytes"}
Infallible == {"next_u32", "next_u64", "fill_bytes"}
Permanent == ErrorKinds \ {"NotReady", "Transient"}

\* the call recorded in l is a generation call whose output the wrapped
\* generator delivered
Produced(l) == l.op \in GenOps /\ ~(l.proc = "none" /\ l.err # "none")

\* the outcome of the last reconstruction attempt of the call recorded in l
LastResult(l) == IF l.results = <<>> THEN "none" ELSE l.results[Len(l.results)]

\* C1: next_u32, next_u64 and fill_bytes never report an error, whatever the
\* reseeder does, and return the output the wrapped generator held before
\* the call: the bytes drawn before any reseed ran.
C1_InfallibleAbsorbs ==
    [][last'.op \in Infallible =>
          /\ last'.err = "none"
          /\ last'.value = Block(rng.seed, rng.pos, last'.len)]_vars

C1_Witness ==
    /\ last.op \in Infallible
    /\ last.proc = "reseed"
    /\ LastResult(last) \in Permanent
    /\ last.err = "none"
    /\ last.value.len > 0

\* C2: the error try_reseed returns has kind NotReady when reconstruction
\* failed NotReady, Transient when it failed Transient, and Transient for
\* every other failure kind; it returns no error when reconstruction worked.
C2_NarrowedKind ==
    last.proc = "try_reseed" =>
        /\ Len(last.results) = 1
        /\ last.results[1] = "Ok" => last.err = "none"
        /\ last.results[1] = "NotReady" => last.err = "NotReady"
        /\ last.results[1] = "Transient" => last.err = "Transient"
        /\ last.results[1] \in Permanent => last.err = "Transient"

C2_Witness ==
    /\ last.op = "try_fill_bytes"
    /\ last.proc = "try_reseed"
    /\ last.results = <<"Unavailable">>
    /\ last.err = "Transient"

\* C3 as stated: one invocation of reseed attempts reconstruction at most 5
\* times in total.
C3_AtMostFiveAttempts ==
    last.proc = "reseed" => Len(last.results) <= 5

\* C3 as amended: one invocation of reseed attempts reconstruction at most 6
\* times in total, the first attempt and at most 5 immediate retries, and a
\* reseeder that keeps failing Transient gets exactly 6.
C3_AtMostSixAttempts ==
    last.proc = "reseed" =>
        /\ Len(last.results) <= 6
        /\ reseeder.mode = "Transient" => Len(last.results) = 6

C3_Witness ==
    /\ last.proc = "reseed"
    /\ last.results = <<"Transient", "Transient", "Transient",
                        "Transient", "Transient", "Transient">>

\* C4 as stated: with a reseeder that always succeeds, a generation call that
\* starts when precisely threshold bytes have been produced since the last
\* successful reseed (rng.pos of them, all from the current instance) makes
\* exactly one reseed attempt.
C4_NextCallReseeds ==
    [][(/\ reseeder.mode = "Ok"
        /\ obj = "live"
        /\ last'.op \in GenOps
        /\ rng.pos = threshold) =>
          Len(last'.results) = 1]_vars

\* C4 as amended: with a reseeder that always succeeds, a generation call in
\* which the wrapped generator delivers its output makes exactly one reseed
\* attempt, within that call, when it starts with precisely threshold bytes
\* produced since the last successful reseed and when its own output brings
\* that number to precisely threshold.
C4_ExactTrigger ==
    [][(/\ reseeder.mode = "Ok"
        /\ obj = "live"
        /\ Produced(last')
        /\ \/ rng.pos = threshold
           \/ rng.pos + last'.value.len = threshold) =>
          /\ last'.results = <<"Ok">>
          /\ rng'.pos = 0]_vars

C4_Witness ==
    /\ reseeder.mode = "Ok"
    /\ last.op = "next_u64"
    /\ last.value.from = 24
    /\ threshold = 32
    /\ last.results = <<"Ok">>

\* C5: when a call of either reseed procedure ends with a successful
\* reconstruction, also one that follows Transient failures,
\* bytes_until_reseed = threshold.
C5_ResetExact ==
    (last.proc # "none" /\ LastResult(last) = "Ok") =>
        bytes_until_reseed = threshold

C5_Witness ==
    /\ last.proc = "try_reseed"
    /\ last.op = "try_fill_bytes"
    /\ last.value.len = 32
    /\ LastResult(last) = "Ok"
    /\ threshold = 4

\* C6: with a reseeder that always fails NotReady, reseed returns with
\* bytes_until_reseed = floor(threshold / 256) after a single attempt.
C6_WaitDelay ==
    (reseeder.mode = "NotReady" /\ last.proc = "reseed") =>
        /\ bytes_until_reseed = threshold \div 256
        /\ last.results = <<"NotReady">>

C6_Witness ==
    /\ reseeder.mode = "NotReady"
    /\ last.op = "next_u32"
    /\ last.proc = "reseed"
    /\ threshold = 300
    /\ bytes_until_reseed = 1

\* C7: when reconstruction fails with a permanent kind, reseed leaves the
\* wrapped generator as the call's own draw left it (the same instance, its
\* next byte the one after the bytes drawn) and bytes_until_reseed = threshold.
C7_PermanentSkip ==
    [][(last'.proc = "reseed" /\ Len(last'.results) = 1
                              /\ last'.results[1] \in Permanent) =>
          /\ rng'.seed = rng.seed
          /\ rng'.pos = rng.pos + last'.value.len
          /\ bytes_until_reseed' = threshold
          /\ threshold' = threshold]_vars

C7_Witness ==
    /\ reseeder.mode = "Unavailable"
    /\ last.op = "fill_bytes"
    /\ last.proc = "reseed"
    /\ last.results = <<"Unavailable">>
    /\ rng.pos = 36

\* C8 as stated: with threshold = 0 every generation call makes a reseed
\* attempt.
C8_EveryCallReseeds ==
    (obj = "live" /\ threshold = 0 /\ last.op \in GenOps) =>
        Len(last.results) >= 1

\* C8 as amended: with threshold = 0 every generation call in which the
\* wrapped generator delivers its output (every next_u32, next_u64 and
\* fill_bytes, and every try_fill_bytes whose inner try_fill_bytes does not
\* fail) makes a reseed attempt, for every buffer length.
C8_EveryProducingCallReseeds ==
    (obj = "live" /\ threshold = 0 /\ Produced(last)) =>
        /\ Len(last.results) >= 1
        /\ last.proc = IF last.op = "try_fill_bytes" THEN "try_reseed" ELSE "reseed"

C8_Witness ==
    /\ threshold = 0
    /\ obj = "live"
    /\ last.op = "fill_bytes"
    /\ last.len = 0
    /\ last.results = <<"NotReady">>
    /\ rng.pos > 0

\* C9: new with a threshold above the largest positive value of the countdown
\* panics and yields no object; with any other threshold it yields an object
\* with threshold and bytes_until_reseed equal to the argument.
C9_NewRange ==
    last.op = "new" =>
        IF last.len > 2^(CountdownBits - 1) - 1
        THEN obj = "panicked" /\ rng = NoRng /\ reseeder = NoSource
        ELSE obj = "live" /\ threshold = last.len /\ bytes_until_reseed = last.len

C9_Witness ==
    /\ last.op = "new"
    /\ last.len = 2^(CountdownBits - 1)
    /\ obj = "panicked"

\* C10: with threshold = 32 and a reseeder that succeeds and rebuilds the
\* state the first generator was built in, every one of a run of 32-byte
\* fills ends in a reseed and yields the block the first fill yielded.
C10_Replay ==
    (/\ reseeder.mode = "Ok"
     /\ reseeder.step = 0
     /\ threshold = 32
     /\ replay.n >= 1
     /\ replay.first = Block(reseeder.v, 0, 32)) =>
        /\ last.value = replay.first
        /\ last.results = <<"Ok">>
        /\ bytes_until_reseed = 32
        /\ rng = [seed |-> reseeder.v, pos |-> 0]

C10_Witness ==
    /\ reseeder.mode = "Ok"
    /\ reseeder.step = 0
    /\ threshold = 32
    /\ replay.n >= 11
    /\ replay.first = Block(reseeder.v, 0, 32)
    /\ last.value = replay.first

\* the call recorded in l is a try_fill_bytes whose try_reseed failed with a
\* wait-class or retry-class error
TryReseedDeferred(l) ==
    /\ l.op = "try_fill_bytes"
    /\ l.proc = "try_reseed"
    /\ LastResult(l) \in {"NotReady", "Transient"}

\* C11 as stated: after a try_fill_bytes whose try_reseed failed NotReady or
\* Transient, the very next generation call of any kind attempts a reseed.
C11_NextCallRetries ==
    [][(TryReseedDeferred(last) /\ last'.op \in GenOps) =>
          Len(last'.results) >= 1]_vars

\* C11 as amended: a try_fill_bytes whose try_reseed fails NotReady or
\* Transient returns that kind with bytes_until_reseed only decremented by the
\* buffer length, so <= 0, and the very next generation call in which the
\* wrapped generator delivers its output attempts a reseed again.
C11_DeferredStaysDue ==
    [][/\ TryReseedDeferred(last') =>
             /\ bytes_until_reseed' = bytes_until_reseed - last'.len
             /\ bytes_until_reseed' <= 0
             /\ last'.err = LastResult(last')
       /\ (TryReseedDeferred(last) /\ Produced(last')) =>
             /\ Len(last'.results) >= 1
             /\ last'.proc # "none"]_vars

C11_Witness ==
    /\ TryReseedDeferred(last)
    /\ last.len = 0
    /\ last.results = <<"NotReady">>
    /\ threshold = 4
    /\ bytes_until_reseed = -28

\* C12: when the reconstruction of try_reseed fails with a permanent kind,
\* bytes_until_reseed = threshold on return, the wrapped generator is the
\* instance it was, and the error returned is Transient.
C12_PermanentRelabelled ==
    [][(last'.proc = "try_reseed" /\ LastResult(last') \in Permanent) =>
          /\ bytes_until_reseed' = threshold
          /\ rng'.seed = rng.seed
          /\ rng'.pos = rng.pos + last'.value.len
          /\ last'.err = "Transient"]_vars

C12_Witness ==
    /\ last.op = "try_fill_bytes"
    /\ last.proc = "try_reseed"
    /\ last.results = <<"Unexpected">>
    /\ last.err = "Transient"
    /\ threshold = 32
    /\ bytes_until_reseed = 32
    /\ rng.pos = 40

\* the bytes a generation call produces
Width(l) == IF l.op = "next_u32" THEN 4 ELSE IF l.op = "next_u64" THEN 8 ELSE l.len

\* C13: a generation call that produces output invokes a reseed procedure
\* exactly when bytes_until_reseed less the bytes produced (4, 8 or the buffer
\* length) is <= 0: reseed in next_u32, next_u64 and fill_bytes, try_reseed in
\* try_fill_bytes, and once: only the last attempt of the call can have an
\* outcome other than Transient.  A call that invokes none leaves
\* bytes_until_reseed decremented by the bytes produced.
C13_TriggerExactly ==
    [][Produced(last') =>
          LET after == bytes_until_reseed - Width(last')
          IN /\ last'.value.len = Width(last')
             /\ (last'.proc # "none") <=> (after <= 0)
             /\ last'.proc \in {"none", IF last'.op = "try_fill_bytes"
                                        THEN "try_reseed" ELSE "reseed"}
             /\ last'.proc = "none" =>
                   bytes_until_reseed' = after /\ last'.results = <<>>
             /\ last'.proc = "try_reseed" => Len(last'.results) = 1
             /\ \A i \in 1..(Len(last'.results) - 1) :
                   last'.results[i] = "Transient"]_vars

C13_Witness ==
    /\ last.op = "try_fill_bytes"
    /\ last.len = 32
    /\ last.value.from = 0
    /\ threshold = 32
    /\ last.proc = "try_reseed"
    /\ last.results = <<"NotReady">>
    /\ bytes_until_reseed = 0

\* C14 as stated: a generation call that crosses the threshold returns with
\* bytes_until_reseed > 0, whatever the threshold and the reseeder's outcome.
C14_BackToNormal ==
    (last.op \in GenOps /\ last.proc # "none") => bytes_until_reseed > 0

\* C14 as amended: a generation call that crosses the threshold returns with
\* bytes_until_reseed = threshold after a successful reconstruction or a skip,
\* threshold >> 8 after a NotReady failure in reseed, and the decremented
\* countdown, still <= 0, after a NotReady or Transient failure in try_reseed;
\* so it returns with bytes_until_reseed > 0 exactly when threshold >= 1 in
\* the first case, threshold >= 256 in the second, and never in the third.
C14_OutcomeCountdown ==
    [][(last'.op \in GenOps /\ last'.proc # "none") =>
          LET r == LastResult(last')
              due == bytes_until_reseed - Width(last')
          IN /\ bytes_until_reseed' =
                   IF r = "Ok" THEN threshold
                   ELSE IF last'.proc = "reseed"
                        THEN (IF r = "NotReady" THEN threshold \div 256 ELSE threshold)
                   ELSE IF r \in {"NotReady", "Transient"} THEN due
                   ELSE threshold
             /\ (bytes_until_reseed' > 0) <=>
                   IF TryReseedDeferred(last') THEN FALSE
                   ELSE IF last'.proc = "reseed" /\ r = "NotReady" THEN threshold >= 256
                   ELSE threshold >= 1]_vars

C14_Witness ==
    /\ last.op = "fill_bytes"
    /\ last.proc = "reseed"
    /\ last.results = <<"Transient", "Transient", "NotReady">>
    /\ threshold = 300
    /\ bytes_until_reseed = 1

\* C15: when the wrapped generator's try_fill_bytes fails, try_fill_bytes
\* returns that error as it is and touches nothing: bytes_until_reseed is not
\* decremented, no reseed is attempted even when bytes_until_reseed <= 0, and
\* the wrapped generator and the reseeder are the ones they were.
C15_InnerFailurePropagates ==
    [][(last'.op = "try_fill_bytes" /\ last'.inner # "none") =>
          /\ last'.err = last'.inner
          /\ last'.proc = "none"
          /\ last'.results = <<>>
          /\ UNCHANGED <<rng, reseeder, threshold, bytes_until_reseed>>]_vars

C15_Witness ==
    /\ last.op = "try_fill_bytes"
    /\ last.inner = "Unavailable"
    /\ last.err = "Unavailable"
    /\ last.len = 0
    /\ threshold = 4
    /\ bytes_until_reseed = -28

\* C16: in a call on the object, the wrapped generator is replaced, by the
\* instance built from the reseeder, exactly when a reconstruction attempt of
\* the call succeeds, which then is its last attempt; in every other call it
\* is the instance it was, advanced by the bytes the call drew.  No call
\* changes threshold.
C16_ReplacedOnSuccessOnly ==
    [][obj = "live" =>
          /\ threshold' = threshold
          /\ \A i \in 1..(Len(last'.results) - 1) : last'.results[i] # "Ok"
          /\ IF LastResult(last') = "Ok"
             THEN rng' = [seed |-> reseeder.v, pos |-> 0] /\ last'.proc # "none"
             ELSE rng' = [seed |-> rng.seed, pos |-> rng.pos + last'.value.len]]_vars

C16_Witness ==
    /\ last.proc = "reseed"
    /\ last.results = <<"Transient", "Transient", "Ok">>
    /\ last.value.seed = 1
    /\ rng = [seed |-> 0, pos |-> 0]

\* C18: whatever the reseeder does in one invocation of reseed, the countdown
\* on return is threshold >> 8 if the last attempt failed NotReady and
\* threshold otherwise, and a NotReady failure is the last attempt: every
\* attempt before the last failed Transient.
C18_CountdownByLastAttempt ==
    last.proc = "reseed" =>
        /\ bytes_until_reseed =
              IF LastResult(last) = "NotReady" THEN threshold \div 256 ELSE threshold
        /\ \A i \in 1..(Len(last.results) - 1) : last.results[i] = "Transient"

C18_Witness ==
    /\ last.proc = "reseed"
    /\ last.op = "reseed"
    /\ last.results = <<"Transient", "Transient", "Transient", "NotReady">>
    /\ threshold = 300
    /\ bytes_until_reseed = 1

\* C19: between calls bytes_until_reseed <= threshold, and when next_u32,
\* next_u64, fill_bytes or reseed has returned, bytes_until_reseed >= 0.
C19_CountdownRange ==
    obj = "live" =>
        /\ bytes_until_reseed <= threshold
        /\ last.op \in Infallible \cup {"reseed"} => bytes_until_reseed >= 0

C19_Witness ==
    /\ obj = "live"
    /\ last.op = "next_u32"
    /\ last.proc = "reseed"
    /\ LastResult(last) = "NotReady"
    /\ threshold = 4
    /\ bytes_until_reseed = 0

C17_CallsReturn ==
    /\ (call.pc = "loop") ~> (call.pc = "idle")
    /\ [](call.pc = "loop" => call.err_count <= RetryLimit)
    /\ []((obj = "live" /\ call.pc = "idle") => ENABLED Begin)

C17_Witness ==
    /\ call.pc = "idle"
    /\ reseeder.mode = "Transient"
    /\ last.op = "fill_bytes"
    /\ last.len = 32
    /\ last.proc = "reseed"
    /\ last.results = <<"Transient">>
    /\ bytes_until_reseed = threshold

====
